---- MODULE Spec2Model ----
(***************************************************************************)
(* t-meter: the input-editing state machine of run_app (src/main.rs) with  *)
(* validate_time / parse_time and the configuration record (src/config.rs).*)
(*                                                                         *)
(* A Rust String is a sequence of one-character strings:                   *)
(*   "07:00"  is  <<"0", "7", ":", "0", "0">>.                             *)
(* A key event is named by a string: a one-character name is               *)
(* KeyCode::Char of that character, "Ctrl-c" is KeyCode::Char('c') with    *)
(* the CONTROL modifier, "Enter", "Esc", "Backspace", "Tab" are the        *)
(* KeyCode variants of that name ("Tab" stands for every other variant).   *)
(***************************************************************************)
EXTENDS Integers, Sequences, FiniteSets, TLC

VARIABLES
    current_theme_index,  \* AppState.current_theme_index (0-based)
    theme_mode,           \* AppState.theme_mode: "Light" | "Dark"
    progress_bar_style,   \* AppState.progress_bar_style
    config,               \* AppState.config (the Config record)
    input_mode,           \* AppState.input_mode
    input_buffer,         \* AppState.input_buffer
    error_message,        \* AppState.error_message: None or the message
    running,              \* TRUE while run_app's loop has not returned
    exit,                 \* run_app's return value: None, "Ok" or "Err"
    key,                  \* the key event the loop handled last
    saves,                \* the outcomes ("ok" | "err") of the Config::save
                          \* calls made while handling the last key
    history,              \* the keys read since startup, kept while they
                          \* follow one of the Scenarios, else Off
    time_str,             \* validate_time's argument (SpecValidate)
    vt_result,            \* validate_time's return value (SpecValidate)
    width,                \* layout[4].width, the columns of the bar (SpecRender)
    now,                  \* seconds since midnight when ui runs (SpecRender)
    frame                 \* what ui last composed (SpecRender)

appVars == <<current_theme_index, theme_mode, progress_bar_style, config,
             input_mode, input_buffer, error_message, running, exit>>
vtVars == <<time_str, vt_result>>
uiVars == <<width, now, frame>>
vars == <<current_theme_index, theme_mode, progress_bar_style, config,
          input_mode, input_buffer, error_message, running, exit, key,
          saves, history, time_str, vt_result, width, now, frame>>

None == "None"

(***************************************************************************)
(* Bounds of the model.                                                    *)
(***************************************************************************)
\* characters typed freely in an editing mode are appended only while the
\* buffer is shorter than this (the code has no limit)
MaxBuf == 4

\* the largest hour / minute field value drawn as validate_time input
MaxField == 99

(***************************************************************************)
(* Characters and strings.                                                 *)
(***************************************************************************)
DigitChars == <<"0", "1", "2", "3", "4", "5", "6", "7", "8", "9">>

Digits == {DigitChars[i] : i \in 1..10}

\* char::to_digit(10) of an ASCII digit
DigitVal(c) == (CHOOSE i \in 1..10 : DigitChars[i] = c) - 1

\* u32::MAX = 4294967295, by its decimal digits
U32MaxDigits == <<"4", "2", "9", "4", "9", "6", "7", "2", "9", "5">>

\* values of 10 significant digits are represented by this cap: the code
\* only compares a parsed field with 24 and 60
BigValue == 1000000000

\* str::split(':') : the fields between the colons (always at least one)
RECURSIVE SplitFrom(_, _, _)
SplitFrom(s, i, cur) ==
    IF i > Len(s) THEN <<cur>>
    ELSE IF s[i] = ":" THEN <<cur>> \o SplitFrom(s, i + 1, <<>>)
    ELSE SplitFrom(s, i + 1, Append(cur, s[i]))

Split(s) == SplitFrom(s, 1, <<>>)

\* a digit string without its leading zeros
RECURSIVE StripZeros(_)
StripZeros(s) ==
    IF Len(s) > 0 /\ s[1] = "0" THEN StripZeros(Tail(s)) ELSE s

\* a < b for digit strings of equal length
RECURSIVE DigitsLess(_, _)
DigitsLess(a, b) ==
    IF Len(a) = 0 THEN FALSE
    ELSE IF a[1] # b[1] THEN DigitVal(a[1]) < DigitVal(b[1])
    ELSE DigitsLess(Tail(a), Tail(b))

\* the number does not fit a u32 (s has no leading zeros)
Overflows(s) ==
    \/ Len(s) > Len(U32MaxDigits)
    \/ Len(s) = Len(U32MaxDigits) /\ DigitsLess(U32MaxDigits, s)

\* value of a sequence of at most 9 digits
RECURSIVE DigitsValue(_, _, _)
DigitsValue(s, i, acc) ==
    IF i > Len(s) THEN acc
    ELSE DigitsValue(s, i + 1, acc * 10 + DigitVal(s[i]))

\* str::parse::<u32>() : an optional '+', then one or more ASCII digits,
\* the value at most u32::MAX; anything else is Err
ParseU32(s) ==
    LET body == IF Len(s) > 0 /\ s[1] = "+" THEN Tail(s) ELSE s
        sig == StripZeros(body)
    IN  IF Len(body) = 0 \/ \E i \in 1..Len(body) : body[i] \notin Digits
        THEN [ok |-> FALSE, val |-> 0]
        ELSE IF Overflows(sig) THEN [ok |-> FALSE, val |-> 0]
        ELSE IF Len(sig) = Len(U32MaxDigits) THEN [ok |-> TRUE, val |-> BigValue]
        ELSE [ok |-> TRUE, val |-> DigitsValue(sig, 1, 0)]

ErrFormat == "Invalid format. Use HH:MM"
ErrInvalidHour == "Invalid hour"
ErrInvalidMinute == "Invalid minute"
ErrHour == "Hour must be 0-23"
ErrMinute == "Minute must be 0-59"

\* no call of validate_time has returned yet
Pending == [ok |-> FALSE, val |-> 0, err |-> "pending"]

Ok(v) == [ok |-> TRUE, val |-> v, err |-> None]
Err(e) == [ok |-> FALSE, val |-> 0, err |-> e]

\* validate_time without the minute range check
validate_time_NoMinuteRange(s) ==
    LET parts == Split(s)
    IN  IF Len(parts) # 2 THEN Err(ErrFormat)
        ELSE LET h == ParseU32(parts[1])
                 m == ParseU32(parts[2])
             IN  IF ~h.ok THEN Err(ErrInvalidHour)
                 ELSE IF ~m.ok THEN Err(ErrInvalidMinute)
                 ELSE IF h.val >= 24 THEN Err(ErrHour)
                 ELSE Ok(h.val * 3600 + m.val * 60)

\* validate_time with the two range checks in the other order
validate_time_MinuteFirst(s) ==
    LET parts == Split(s)
    IN  IF Len(parts) # 2 THEN Err(ErrFormat)
        ELSE LET h == ParseU32(parts[1])
                 m == ParseU32(parts[2])
             IN  IF ~h.ok THEN Err(ErrInvalidHour)
                 ELSE IF ~m.ok THEN Err(ErrInvalidMinute)
                 ELSE IF m.val >= 60 THEN Err(ErrMinute)
                 ELSE IF h.val >= 24 THEN Err(ErrHour)
                 ELSE Ok(h.val * 3600 + m.val * 60)

validate_time(s) ==
    LET parts == Split(s)
    IN  IF Len(parts) # 2 THEN Err(ErrFormat)
        ELSE LET h == ParseU32(parts[1])
                 m == ParseU32(parts[2])
             IN  IF ~h.ok THEN Err(ErrInvalidHour)
                 ELSE IF ~m.ok THEN Err(ErrInvalidMinute)
                 ELSE IF h.val >= 24 THEN Err(ErrHour)
                 ELSE IF m.val >= 60 THEN Err(ErrMinute)
                 ELSE Ok(h.val * 3600 + m.val * 60)

\* parts[i].parse().unwrap_or(0)
ParseOr0(s) == IF ParseU32(s).ok THEN ParseU32(s).val ELSE 0

\* the lenient parse used for display and marker positions
parse_time(s) ==
    LET parts == Split(s)
    IN  IF Len(parts) = 2
        THEN ParseOr0(parts[1]) * 3600 + ParseOr0(parts[2]) * 60
        ELSE 0

\* decimal digits of a natural number
RECURSIVE Decimal(_)
Decimal(n) ==
    IF n < 10 THEN <<DigitChars[n + 1]>>
    ELSE Append(Decimal(n \div 10), DigitChars[(n % 10) + 1])

\* format!("{:02}", n) : at least two digits, zero-padded
Pad2(n) == IF n < 10 THEN <<"0">> \o Decimal(n) ELSE Decimal(n)

\* the time formatted with "{}:{}", without the padding
FormatTime_Unpadded(secs) ==
    Decimal(secs \div 3600) \o <<":">> \o Decimal((secs % 3600) \div 60)

\* format!("{:02}:{:02}", secs / 3600, (secs % 3600) / 60)
FormatTime(secs) == Pad2(secs \div 3600) \o <<":">> \o Pad2((secs % 3600) \div 60)

(***************************************************************************)
(* The configuration record and the themes.                                *)
(***************************************************************************)
\* theme::get_all_themes(), by name
ThemeNames == <<"default", "ocean", "forest", "sunset", "monochrome", "contrast">>

\* Config::default()
DefaultConfig ==
    [theme_name |-> "default",
     theme_mode |-> "light",
     progress_bar_style |-> "Analog",
     wake_up_time |-> <<"0", "7", ":", "0", "0">>,
     bed_time |-> <<"2", "3", ":", "0", "0">>,
     markers |-> <<>>]

\* ThemeMode::toggle
ToggleMode(m) == IF m = "Light" THEN "Dark" ELSE "Light"

\* ProgressBarStyle::cycle
CycleStyle(st) ==
    CASE st = "Gradient" -> "Grainy"
      [] st = "Grainy" -> "Analog"
      [] st = "Analog" -> "Gradient"

(***************************************************************************)
(* Colours and styles of the timeline (theme.rs, ratatui's Color/Style).   *)
(***************************************************************************)
\* a named terminal colour, Color::White and the like
Named(n) == [name |-> n, r |-> 0, g |-> 0, b |-> 0]

\* Color::Rgb(r, g, b)
Rgb(r, g, b) == [name |-> "Rgb", r |-> r, g |-> g, b |-> b]

\* the fields of ColorScheme the timeline rows use
Scheme(ps, pe, pm, pi, mk) ==
    [progress_start |-> ps, progress_end |-> pe, progress_empty |-> pm,
     progress_indicator |-> pi, marker |-> mk]

\* get_default_theme().light
DefaultLight ==
    Scheme(Named("White"), Named("White"),
           Named("DarkGray"), Named("Yellow"),
           Named("White"))

\* get_default_theme().dark
DefaultDark ==
    Scheme(Named("Cyan"), Named("Blue"),
           Rgb(40, 40, 40), Named("Yellow"),
           Named("Gray"))

\* get_ocean_theme().light
OceanLight ==
    Scheme(Rgb(0, 153, 204), Rgb(0, 204, 255),
           Rgb(204, 229, 255), Rgb(255, 153, 0),
           Rgb(0, 102, 153))

\* get_ocean_theme().dark
OceanDark ==
    Scheme(Rgb(51, 153, 255), Rgb(0, 255, 255),
           Rgb(0, 51, 102), Rgb(255, 204, 0),
           Rgb(153, 204, 255))

\* get_forest_theme().light
ForestLight ==
    Scheme(Rgb(50, 205, 50), Rgb(154, 205, 50),
           Rgb(193, 225, 193), Rgb(255, 215, 0),
           Rgb(34, 139, 34))

\* get_forest_theme().dark
ForestDark ==
    Scheme(Rgb(34, 139, 34), Rgb(0, 255, 127),
           Rgb(25, 51, 25), Rgb(255, 255, 102),
           Rgb(107, 142, 35))

\* get_sunset_theme().light
SunsetLight ==
    Scheme(Rgb(255, 140, 0), Rgb(255, 69, 0),
           Rgb(255, 228, 196), Rgb(255, 215, 0),
           Rgb(255, 99, 71))

\* get_sunset_theme().dark
SunsetDark ==
    Scheme(Rgb(255, 99, 71), Rgb(255, 20, 147),
           Rgb(102, 51, 51), Rgb(255, 255, 102),
           Rgb(255, 140, 0))

\* get_monochrome_theme().light
MonochromeLight ==
    Scheme(Rgb(20, 20, 20), Rgb(100, 100, 100),
           Rgb(220, 220, 220), Rgb(0, 0, 0),
           Rgb(40, 40, 40))

\* get_monochrome_theme().dark
MonochromeDark ==
    Scheme(Rgb(220, 220, 220), Rgb(160, 160, 160),
           Rgb(50, 50, 50), Rgb(255, 255, 255),
           Rgb(220, 220, 220))

\* get_contrast_theme().light
ContrastLight ==
    Scheme(Named("Blue"), Named("Blue"),
           Named("Gray"), Named("Red"),
           Named("Black"))

\* get_contrast_theme().dark
ContrastDark ==
    Scheme(Named("Cyan"), Named("Cyan"),
           Named("DarkGray"), Named("Yellow"),
           Named("White"))

\* theme::get_all_themes(), in the order of ThemeNames
Themes ==
    <<[light |-> DefaultLight, dark |-> DefaultDark],
      [light |-> OceanLight, dark |-> OceanDark],
      [light |-> ForestLight, dark |-> ForestDark],
      [light |-> SunsetLight, dark |-> SunsetDark],
      [light |-> MonochromeLight, dark |-> MonochromeDark],
      [light |-> ContrastLight, dark |-> ContrastDark]>>

\* AppState::get_colors: Theme::get_colors of the current theme
get_colors ==
    IF theme_mode = "Light"
    THEN Themes[current_theme_index + 1].light
    ELSE Themes[current_theme_index + 1].dark

\* Style::default().fg(c), and the same with Modifier::BOLD added
Fg(c) == [fg |-> c, bold |-> FALSE]

FgBold(c) == [fg |-> c, bold |-> TRUE]

(***************************************************************************)
(* ui: the rows of the timeline, composed as the code composes them.  A    *)
(* row is a sequence with one element per cell; column c of the code       *)
(* (0-based) is element c + 1.                                             *)
(***************************************************************************)
total_seconds == 24 * 60 * 60

Min(a, b) == IF a <= b THEN a ELSE b

\* usize::saturating_sub
SatSub(a, b) == IF a >= b THEN a - b ELSE 0

\* (secs as f64 / total_seconds as f64 * n as f64).round() as usize: f64's
\* round is half away from zero.  For n up to 40 the f64 product rounds as
\* the exact quotient does, except at secs = 50112 and n = 25, where the
\* product falls just below 14.5
RoundScaled(secs, n) ==
    IF secs = 50112 /\ n = 25
    THEN 14
    ELSE (2 * secs * n + total_seconds) \div (2 * total_seconds)

\* glyphs of the rows
Space == " "
DownTriangle == "U+25BC"
FullBlock == "U+2588"
DarkShade == "U+2593"
LightShade == "U+2591"
DoubleVertical == "U+2551"
LightVertical == "U+2502"
HeavyVertical == "U+2503"

WakeLabel == <<"W", "a", "k", "e", " ", "U", "p", " ", "[", "w", "]">>
NoonLabel == <<"N", "o", "o", "n">>
SleepLabel == <<"S", "l", "e", "e", "p", " ", "[", "b", "]">>
NoonText == <<"1", "2", ":", "0", "0">>

\* " ".repeat(w), vec![' '; w]
Blanks(w) == [c \in 1..w |-> Space]

\* the column of the pointer without the clamp to the last column
TimePos_Unclamped(secs, w) == RoundScaled(secs, w)

\* the column of the pointer
TimePos(secs, w) == Min(RoundScaled(secs, w), w - 1)

\* the start column of a text of len characters centred on column pos
StartOffset(pos, len, w) ==
    Min(IF pos >= len \div 2 THEN pos - len \div 2 ELSE 0, SatSub(w, len))

\* String::replace_range(from..to, text): the cells from..to (0-based, to
\* excluded) give way to the whole of text
ReplaceRange(line, from, to, text) ==
    SubSeq(line, 1, from) \o text \o SubSeq(line, to + 1, Len(line))

\* the floating time line
TimeLine(secs, w) ==
    LET text == FormatTime(secs)
        time_start == StartOffset(TimePos(secs, w), Len(text), w)
    IN  IF time_start < w
        THEN ReplaceRange(Blanks(w), time_start, Min(time_start + Len(text), w), text)
        ELSE Blanks(w)

\* the pointer line
PointerLine(secs, w) ==
    LET time_pos == TimePos(secs, w)
    IN  IF time_pos < w
        THEN ReplaceRange(Blanks(w), time_pos, time_pos + 1, <<DownTriangle>>)
        ELSE Blanks(w)

\* one channel of interpolate_color at t = i / w, truncated to u8
Channel(c1, c2, i, w) == (c1 * w + (c2 - c1) * i) \div w

interpolate_color(start, end, i, w) ==
    IF start.name = "Rgb" /\ end.name = "Rgb"
    THEN Rgb(Channel(start.r, end.r, i, w),
             Channel(start.g, end.g, i, w),
             Channel(start.b, end.b, i, w))
    ELSE start

Span(text, style) == [text |-> text, style |-> style]

\* the base glyph and style of column i of the bar
BaseCell(style, colors, i, filled_width, w) ==
    CASE style = "Gradient" ->
             IF i < filled_width
             THEN Span(FullBlock,
                       Fg(interpolate_color(colors.progress_start,
                                            colors.progress_end, i, w)))
             ELSE Span(FullBlock, Fg(colors.progress_empty))
      [] style = "Grainy" ->
             IF i < filled_width
             THEN Span(DarkShade, Fg(colors.progress_end))
             ELSE Span(LightShade, Fg(colors.progress_empty))
      [] style = "Analog" ->
             IF i < filled_width
             THEN Span(DoubleVertical, Fg(colors.progress_end))
             ELSE Span(LightVertical, Fg(colors.progress_empty))

\* the span pushed for column i of the bar, the markers tested first
BarCell_MarkerFirst(style, colors, i, secs, wake_secs, bed_secs, w) ==
    IF i = RoundScaled(wake_secs, w) \/ i = RoundScaled(bed_secs, w)
    THEN Span(LightVertical, FgBold(colors.marker))
    ELSE IF i = TimePos(secs, w)
    THEN Span(HeavyVertical, FgBold(colors.progress_indicator))
    ELSE BaseCell(style, colors, i, RoundScaled(secs, w), w)

\* the span pushed for column i of the bar
BarCell(style, colors, i, secs, wake_secs, bed_secs, w) ==
    LET wake_pos == RoundScaled(wake_secs, w)
        bed_pos == RoundScaled(bed_secs, w)
    IN  IF i = TimePos(secs, w)
        THEN Span(HeavyVertical, FgBold(colors.progress_indicator))
        ELSE IF i = wake_pos \/ i = bed_pos
        THEN Span(LightVertical, FgBold(colors.marker))
        ELSE BaseCell(style, colors, i, RoundScaled(secs, w), w)

\* the spans of the bar line, one pushed per column
BarSpans(style, colors, secs, wake_secs, bed_secs, w) ==
    [c \in 1..w |-> BarCell(style, colors, c - 1, secs, wake_secs, bed_secs, w)]

\* the column of a marker's tick, time and label
MarkerPos(secs, w) == RoundScaled(secs, w - 1)

\* the characters of text written over a row from column start on, those at
\* columns below w only
WriteAt(row, start, text, w) ==
    [c \in 1..w |->
        IF c - 1 >= start /\ c - 1 < start + Len(text) THEN text[c - start] ELSE row[c]]

\* one pass of the marker loop over the three rows and the styles
PlaceMarker(rows, m, w) ==
    LET pos == MarkerPos(m.seconds, w)
        t_start == StartOffset(pos, Len(m.time_text), w)
        l_start == StartOffset(pos, Len(m.label_text), w)
    IN  IF pos < w
        THEN [ticks |-> [rows.ticks EXCEPT ![pos + 1] = LightVertical],
              times |-> IF t_start < w
                        THEN WriteAt(rows.times, t_start, m.time_text, w)
                        ELSE rows.times,
              styles |-> IF t_start < w
                         THEN WriteAt(rows.styles, t_start,
                                      [i \in 1..Len(m.time_text) |-> m.style], w)
                         ELSE rows.styles,
              labels |-> IF l_start < w
                         THEN WriteAt(rows.labels, l_start, m.label_text, w)
                         ELSE rows.labels,
              placed |-> Append(rows.placed,
                                [seconds |-> m.seconds, pos |-> pos,
                                 time_text |-> m.time_text,
                                 label_text |-> m.label_text,
                                 t_start |-> t_start, t_len |-> Len(m.time_text),
                                 l_start |-> l_start, l_len |-> Len(m.label_text)])]
        ELSE rows

\* the marker loop over a list of markers, first to last
RECURSIVE PlaceMarkers(_, _, _)
PlaceMarkers(rows, ms, w) ==
    IF ms = <<>> THEN rows
    ELSE PlaceMarkers(PlaceMarker(rows, Head(ms), w), Tail(ms), w)

Marker(seconds, time_text, label_text, style) ==
    [seconds |-> seconds, time_text |-> time_text,
     label_text |-> label_text, style |-> style]

\* the markers vec with the bed time ahead of noon
Markers_BedBeforeNoon(mode, buffer, colors, wake_secs, bed_secs) ==
    <<Marker(wake_secs,
             IF mode = "EditingWakeUp" THEN buffer ELSE FormatTime(wake_secs),
             WakeLabel,
             IF mode = "EditingWakeUp"
             THEN FgBold(Named("Yellow")) ELSE Fg(colors.marker)),
      Marker(bed_secs,
             IF mode = "EditingBedTime" THEN buffer ELSE FormatTime(bed_secs),
             SleepLabel,
             IF mode = "EditingBedTime"
             THEN FgBold(Named("Yellow")) ELSE Fg(colors.marker)),
      Marker(12 * 3600, NoonText, NoonLabel, Fg(colors.marker))>>

\* the markers vec
Markers(mode, buffer, colors, wake_secs, bed_secs) ==
    LET wake_style == IF mode = "EditingWakeUp"
                      THEN FgBold(Named("Yellow")) ELSE Fg(colors.marker)
        bed_style == IF mode = "EditingBedTime"
                     THEN FgBold(Named("Yellow")) ELSE Fg(colors.marker)
        wake_time_display == IF mode = "EditingWakeUp"
                             THEN buffer ELSE FormatTime(wake_secs)
        bed_time_display == IF mode = "EditingBedTime"
                            THEN buffer ELSE FormatTime(bed_secs)
    IN  <<Marker(wake_secs, wake_time_display, WakeLabel, wake_style),
          Marker(12 * 3600, NoonText, NoonLabel, Fg(colors.marker)),
          Marker(bed_secs, bed_time_display, SleepLabel, bed_style)>>

\* the tick, time and label rows after the marker loop
MarkerRows(ms, colors, w) ==
    PlaceMarkers([ticks |-> Blanks(w), times |-> Blanks(w),
                  styles |-> [c \in 1..w |-> Fg(colors.marker)],
                  labels |-> Blanks(w), placed |-> <<>>],
                 ms, w)

\* the time row as one span per column
TimesSpans_PerColumn(chars, styles, i, current_text, current_style) ==
    [c \in 1..Len(chars) |-> Span(<<chars[c]>>, styles[c])]

\* times_spans: the time row cut into runs of one style
RECURSIVE TimesSpans(_, _, _, _, _)
TimesSpans(chars, styles, i, current_text, current_style) ==
    IF i > Len(chars)
    THEN <<Span(current_text, current_style)>>
    ELSE IF styles[i] # current_style
    THEN <<Span(current_text, current_style)>>
             \o TimesSpans(chars, styles, i + 1, <<chars[i]>>, styles[i])
    ELSE TimesSpans(chars, styles, i + 1, Append(current_text, chars[i]), current_style)

\* what ui has composed before its first call; the help screen and the
\* return at a bar narrower than two columns leave the rows empty as well
NotDrawn ==
    [screen |-> "none", time_pos |-> 0, time_line |-> <<>>, pointer_line |-> <<>>,
     bar |-> <<>>, ticks |-> <<>>, times |-> <<>>, times_styles |-> <<>>,
     times_spans |-> <<>>,
     labels |-> <<>>, placed |-> <<>>, hint |-> "none", legend |-> <<>>]

\* ui, the title and the quote aside
ui ==
    LET colors == get_colors
        wake_secs == parse_time(config.wake_up_time)
        bed_secs == parse_time(config.bed_time)
        rows == MarkerRows(Markers(input_mode, input_buffer, colors,
                                   wake_secs, bed_secs),
                           colors, width)
    IN  IF input_mode = "Help" THEN [NotDrawn EXCEPT !.screen = "help"]
        ELSE IF width < 2 THEN [NotDrawn EXCEPT !.screen = "title"]
        ELSE [screen |-> "timeline",
              time_pos |-> TimePos(now, width),
              time_line |-> TimeLine(now, width),
              pointer_line |-> PointerLine(now, width),
              bar |-> BarSpans(progress_bar_style, colors, now,
                               wake_secs, bed_secs, width),
              ticks |-> rows.ticks,
              times |-> rows.times,
              times_styles |-> rows.styles,
              times_spans |-> TimesSpans(rows.times, rows.styles, 1, <<>>,
                                         rows.styles[1]),
              labels |-> rows.labels,
              placed |-> rows.placed,
              hint |-> IF input_mode = "Normal" THEN "none"
                       ELSE IF error_message # None THEN "error" ELSE "prompt",
              legend |-> <<FormatTime(now), FormatTime(total_seconds - now)>>]

(***************************************************************************)
(* The keyboard.                                                           *)
(***************************************************************************)
\* the digit and ':' keys typed freely while editing
TypedChars == {"6", ":"}

\* KeyCode::Char keys without a modifier
CharKeys == {"q", "t", "d", "s", "h", "w", "b", "?", "c"} \cup Digits \cup {":"}

Keys == CharKeys \cup {"Ctrl-c", "Enter", "Esc", "Backspace", "Tab"}

\* the character of a KeyCode::Char event, whatever its modifiers
CharOf(k) == IF k = "Ctrl-c" THEN "c" ELSE k

IsChar(k) == k \in CharKeys \/ k = "Ctrl-c"

Repeat(k, n) == [i \in 1..n |-> k]

\* 'w', then 06:30 typed after the seeded text
TypeWake == <<"w", "0", "6", ":", "3", "0", "Enter">>

\* 'w', the seeded text erased, then 06:30 typed
RetypeWake ==
    <<"w">> \o Repeat("Backspace", 5) \o <<"0", "6", ":", "3", "0", "Enter">>

\* 'w', then 99:00 typed after the seeded text
TypeBadHour == <<"w", "9", "9", ":", "0", "0", "Enter">>

\* 'w', the seeded text erased, then 99:00 typed
RetypeBadHour ==
    <<"w">> \o Repeat("Backspace", 5) \o <<"9", "9", ":", "0", "0", "Enter">>

\* 'b', "23:" rejected, a digit typed, then Escape with the error pending
AbortAfterError == <<"b", "Backspace", "Backspace", "Enter", "6", "Esc">>

\* 't' pressed twice round the list of themes
CycleTwice == Repeat("t", 2 * Len(ThemeNames))

\* key sequences from startup that are followed to their end
Scenarios ==
    {TypeWake, RetypeWake, TypeBadHour, RetypeBadHour, AbortAfterError, CycleTwice}

Off == <<"Off">>

IsPrefix(p, s) == Len(p) <= Len(s) /\ SubSeq(s, 1, Len(p)) = p

OnScript(h) == \E s \in Scenarios : IsPrefix(h, s)

Record(h, k) == IF h # Off /\ OnScript(Append(h, k)) THEN Append(h, k) ELSE Off

\* the model offers a digit or ':' key when it is typed freely into a short
\* buffer, or when it continues a scenario
Offered(c) ==
    \/ c \in TypedChars /\ Len(input_buffer) < MaxBuf
    \/ history # Off /\ OnScript(Append(history, c))

(***************************************************************************)
(* main: the state after AppState is constructed from Config::default().   *)
(***************************************************************************)
Init ==
    /\ config = DefaultConfig
    /\ current_theme_index = 0
    /\ theme_mode = "Light"
    /\ progress_bar_style = config.progress_bar_style
    /\ input_mode = "Normal"
    /\ input_buffer = <<>>
    /\ error_message = None
    /\ running = TRUE
    /\ exit = None
    /\ key = None
    /\ saves = <<>>
    /\ history = <<>>
    /\ time_str = <<>>
    /\ vt_result = Pending
    /\ width = 0
    /\ now = 0
    /\ frame = NotDrawn

(***************************************************************************)
(* run_app: one action per arm of the key dispatch.                        *)
(***************************************************************************)
\* event::read() returned the key press k
Read(k) ==
    /\ running
    /\ key' = k
    /\ history' = Record(history, k)
    /\ UNCHANGED vtVars
    /\ UNCHANGED uiVars

\* let _ = self.config.save(): the result is dropped
Save == \E outcome \in {"ok", "err"} : saves' = <<outcome>>

NoSave == saves' = <<>>

NormalQuit ==
    /\ input_mode = "Normal"
    /\ \E k \in {"q", "Ctrl-c"} : Read(k)
    /\ running' = FALSE
    /\ exit' = "Ok"
    /\ NoSave
    /\ UNCHANGED <<current_theme_index, theme_mode, progress_bar_style, config,
                   input_mode, input_buffer, error_message>>

\* cycle_theme writing the name of the theme it is leaving
cycle_theme_StaleName ==
    /\ current_theme_index' = (current_theme_index + 1) % Len(ThemeNames)
    /\ config' = [config EXCEPT !.theme_name = ThemeNames[current_theme_index + 1]]
    /\ Save
    /\ UNCHANGED <<theme_mode, progress_bar_style>>

\* AppState::cycle_theme
cycle_theme ==
    /\ current_theme_index' = (current_theme_index + 1) % Len(ThemeNames)
    /\ config' = [config EXCEPT !.theme_name = ThemeNames[current_theme_index' + 1]]
    /\ Save
    /\ UNCHANGED <<theme_mode, progress_bar_style>>

\* AppState::toggle_mode
toggle_mode ==
    /\ theme_mode' = ToggleMode(theme_mode)
    /\ config' = [config EXCEPT !.theme_mode =
                      IF theme_mode' = "Light" THEN "light" ELSE "dark"]
    /\ Save
    /\ UNCHANGED <<current_theme_index, progress_bar_style>>

\* AppState::cycle_style
cycle_style ==
    /\ progress_bar_style' = CycleStyle(progress_bar_style)
    /\ config' = [config EXCEPT !.progress_bar_style = progress_bar_style']
    /\ Save
    /\ UNCHANGED <<current_theme_index, theme_mode>>

NormalTheme ==
    /\ input_mode = "Normal"
    /\ Read("t")
    /\ cycle_theme
    /\ UNCHANGED <<input_mode, input_buffer, error_message, running, exit>>

NormalMode ==
    /\ input_mode = "Normal"
    /\ Read("d")
    /\ toggle_mode
    /\ UNCHANGED <<input_mode, input_buffer, error_message, running, exit>>

NormalStyle ==
    /\ input_mode = "Normal"
    /\ Read("s")
    /\ cycle_style
    /\ UNCHANGED <<input_mode, input_buffer, error_message, running, exit>>

NormalHelp ==
    /\ input_mode = "Normal"
    /\ Read("h")
    /\ input_mode' = "Help"
    /\ NoSave
    /\ UNCHANGED <<current_theme_index, theme_mode, progress_bar_style, config,
                   input_buffer, error_message, running, exit>>

\* 'w' entering the editing mode with an empty buffer
NormalWake_NoSeed ==
    /\ input_mode = "Normal"
    /\ Read("w")
    /\ input_mode' = "EditingWakeUp"
    /\ input_buffer' = <<>>
    /\ error_message' = None
    /\ NoSave
    /\ UNCHANGED <<current_theme_index, theme_mode, progress_bar_style, config,
                   running, exit>>

NormalWake ==
    /\ input_mode = "Normal"
    /\ Read("w")
    /\ input_mode' = "EditingWakeUp"
    /\ input_buffer' = config.wake_up_time
    /\ error_message' = None
    /\ NoSave
    /\ UNCHANGED <<current_theme_index, theme_mode, progress_bar_style, config,
                   running, exit>>

\* 'b' seeding the buffer with the wake-up time
NormalBed_SeedsWake ==
    /\ input_mode = "Normal"
    /\ Read("b")
    /\ input_mode' = "EditingBedTime"
    /\ input_buffer' = config.wake_up_time
    /\ error_message' = None
    /\ NoSave
    /\ UNCHANGED <<current_theme_index, theme_mode, progress_bar_style, config,
                   running, exit>>

NormalBed ==
    /\ input_mode = "Normal"
    /\ Read("b")
    /\ input_mode' = "EditingBedTime"
    /\ input_buffer' = config.bed_time
    /\ error_message' = None
    /\ NoSave
    /\ UNCHANGED <<current_theme_index, theme_mode, progress_bar_style, config,
                   running, exit>>

\* '?' opens the documentation URL, every other key is ignored
NormalOther ==
    /\ input_mode = "Normal"
    /\ \E k \in {"?", "c", "Enter", "Esc", "Backspace", "Tab"} \cup
                {c \in TypedChars : TRUE} : Read(k)
    /\ NoSave
    /\ UNCHANGED appVars

\* 'q' in Help mode ending the loop as it does in Normal mode
HelpClose_QuitEnds ==
    /\ input_mode = "Help"
    /\ \E k \in {"Esc", "h", "q"} :
          /\ Read(k)
          /\ running' = (k # "q")
          /\ exit' = IF k = "q" THEN "Ok" ELSE exit
    /\ input_mode' = "Normal"
    /\ NoSave
    /\ UNCHANGED <<current_theme_index, theme_mode, progress_bar_style, config,
                   input_buffer, error_message>>

HelpClose ==
    /\ input_mode = "Help"
    /\ \E k \in {"Esc", "h", "q"} : Read(k)
    /\ input_mode' = "Normal"
    /\ NoSave
    /\ UNCHANGED <<current_theme_index, theme_mode, progress_bar_style, config,
                   input_buffer, error_message, running, exit>>

HelpOther ==
    /\ input_mode = "Help"
    /\ \E k \in {"t", "d", "s", "w", "b", "?", "c", "Ctrl-c", "Enter",
                 "Backspace", "Tab"} \cup TypedChars : Read(k)
    /\ NoSave
    /\ UNCHANGED appVars

Editing == {"EditingWakeUp", "EditingBedTime"}

\* the new value of config when the buffer is committed
Commit ==
    IF input_mode = "EditingWakeUp"
    THEN [config EXCEPT !.wake_up_time = input_buffer]
    ELSE [config EXCEPT !.bed_time = input_buffer]

\* Enter clearing the buffer only when the time was accepted
EditEnter_KeepTextOnError ==
    /\ input_mode \in Editing
    /\ Read("Enter")
    /\ LET r == validate_time(input_buffer)
       IN  IF r.ok
           THEN /\ config' = Commit
                /\ Save
                /\ input_mode' = "Normal"
                /\ error_message' = None
                /\ input_buffer' = <<>>
           ELSE /\ error_message' = r.err
                /\ NoSave
                /\ UNCHANGED <<config, input_mode, input_buffer>>
    /\ UNCHANGED <<current_theme_index, theme_mode, progress_bar_style, running, exit>>

\* Enter leaving the editing mode also when the time was rejected
EditEnter_LeaveOnError ==
    /\ input_mode \in Editing
    /\ Read("Enter")
    /\ LET r == validate_time(input_buffer)
       IN  IF r.ok
           THEN /\ config' = Commit
                /\ Save
                /\ error_message' = None
           ELSE /\ error_message' = r.err
                /\ NoSave
                /\ UNCHANGED config
    /\ input_mode' = "Normal"
    /\ input_buffer' = <<>>
    /\ UNCHANGED <<current_theme_index, theme_mode, progress_bar_style, running, exit>>

\* Enter returning to Normal only when the save succeeded
EditEnter_StayOnSaveError ==
    /\ input_mode \in Editing
    /\ Read("Enter")
    /\ LET r == validate_time(input_buffer)
       IN  IF r.ok
           THEN /\ config' = Commit
                /\ Save
                /\ input_mode' = IF saves' = <<"ok">> THEN "Normal" ELSE input_mode
                /\ error_message' = None
           ELSE /\ error_message' = r.err
                /\ NoSave
                /\ UNCHANGED <<config, input_mode>>
    /\ input_buffer' = <<>>
    /\ UNCHANGED <<current_theme_index, theme_mode, progress_bar_style, running, exit>>

EditEnter ==
    /\ input_mode \in Editing
    /\ Read("Enter")
    /\ LET r == validate_time(input_buffer)
       IN  IF r.ok
           THEN /\ config' = Commit
                /\ Save
                /\ input_mode' = "Normal"
                /\ error_message' = None
           ELSE /\ error_message' = r.err
                /\ NoSave
                /\ UNCHANGED <<config, input_mode>>
    /\ input_buffer' = <<>>
    /\ UNCHANGED <<current_theme_index, theme_mode, progress_bar_style, running, exit>>

\* Escape leaving the typed text in the buffer
EditEsc_KeepText ==
    /\ input_mode \in Editing
    /\ Read("Esc")
    /\ input_mode' = "Normal"
    /\ error_message' = None
    /\ NoSave
    /\ UNCHANGED <<current_theme_index, theme_mode, progress_bar_style, config,
                   input_buffer, running, exit>>

\* Escape leaving the error message in place
EditEsc_KeepError ==
    /\ input_mode \in Editing
    /\ Read("Esc")
    /\ input_mode' = "Normal"
    /\ input_buffer' = <<>>
    /\ NoSave
    /\ UNCHANGED <<current_theme_index, theme_mode, progress_bar_style, config,
                   error_message, running, exit>>

EditEsc ==
    /\ input_mode \in Editing
    /\ Read("Esc")
    /\ input_mode' = "Normal"
    /\ input_buffer' = <<>>
    /\ error_message' = None
    /\ NoSave
    /\ UNCHANGED <<current_theme_index, theme_mode, progress_bar_style, config,
                   running, exit>>

\* String::pop
Pop(s) == IF Len(s) = 0 THEN s ELSE SubSeq(s, 1, Len(s) - 1)

EditBackspace ==
    /\ input_mode \in Editing
    /\ Read("Backspace")
    /\ input_buffer' = Pop(input_buffer)
    /\ NoSave
    /\ UNCHANGED <<current_theme_index, theme_mode, progress_bar_style, config,
                   input_mode, error_message, running, exit>>

\* KeyCode::Char(c) with c.is_digit(10) || c == ':'
EditChar ==
    /\ input_mode \in Editing
    /\ \E k \in Digits \cup {":"} :
          /\ Offered(k)
          /\ Read(k)
          /\ input_buffer' = Append(input_buffer, k)
    /\ NoSave
    /\ UNCHANGED <<current_theme_index, theme_mode, progress_bar_style, config,
                   input_mode, error_message, running, exit>>

\* Ctrl-C in an editing mode ending the loop as it does in Normal mode
EditOther_CtrlCEnds ==
    /\ input_mode \in Editing
    /\ \E k \in {"q", "t", "d", "s", "h", "w", "b", "?", "c", "Ctrl-c", "Tab"} :
          /\ Read(k)
          /\ running' = (k # "Ctrl-c")
          /\ exit' = IF k = "Ctrl-c" THEN "Ok" ELSE exit
    /\ NoSave
    /\ UNCHANGED <<current_theme_index, theme_mode, progress_bar_style, config,
                   input_mode, input_buffer, error_message>>

\* any other character (also with CONTROL) and any other key code
EditOther ==
    /\ input_mode \in Editing
    /\ \E k \in {"q", "t", "d", "s", "h", "w", "b", "?", "c", "Ctrl-c", "Tab"} :
          Read(k)
    /\ NoSave
    /\ UNCHANGED appVars

\* terminal.draw, event::poll or event::read returning an error, which `?`
\* hands on as run_app's result
IoFailure ==
    /\ running
    /\ running' = FALSE
    /\ exit' = "Err"
    /\ UNCHANGED <<current_theme_index, theme_mode, progress_bar_style, config,
                   input_mode, input_buffer, error_message, key, saves, history>>
    /\ UNCHANGED vtVars
    /\ UNCHANGED uiVars

Next ==
    \/ NormalQuit
    \/ NormalTheme
    \/ NormalMode
    \/ NormalStyle
    \/ NormalHelp
    \/ NormalWake
    \/ NormalBed
    \/ NormalOther
    \/ HelpClose
    \/ HelpOther
    \/ EditEnter
    \/ EditEsc
    \/ EditBackspace
    \/ EditChar
    \/ EditOther
    \/ IoFailure

Spec == Init /\ [][Next]_vars

(***************************************************************************)
(* The editing machine alone: every arm of the dispatch but the three      *)
(* Normal-mode keys 't', 'd', 's' (theme, light/dark, bar style), which    *)
(* are then pressed only where they are ignored.                           *)
(***************************************************************************)
NextEdit ==
    \/ NormalQuit
    \/ NormalHelp
    \/ NormalWake
    \/ NormalBed
    \/ NormalOther
    \/ HelpClose
    \/ HelpOther
    \/ EditEnter
    \/ EditEsc
    \/ EditBackspace
    \/ EditChar
    \/ EditOther

SpecEdit == Init /\ [][NextEdit]_vars

(***************************************************************************)
(* The selection keys with the editing modes: every arm of the dispatch,   *)
(* the editing modes without typed characters (the seeded text is edited   *)
(* with Backspace only).                                                   *)
(***************************************************************************)
NextTheme ==
    \/ NormalQuit
    \/ NormalTheme
    \/ NormalMode
    \/ NormalStyle
    \/ NormalHelp
    \/ NormalWake
    \/ NormalBed
    \/ NormalOther
    \/ HelpClose
    \/ HelpOther
    \/ EditEnter
    \/ EditEsc
    \/ EditBackspace
    \/ EditOther

SpecTheme == Init /\ [][NextTheme]_vars

(***************************************************************************)
(* The loop with its error returns: the arms of NextTheme and the failure  *)
(* of a draw, poll or read.                                                *)
(***************************************************************************)
NextLoop ==
    \/ NormalQuit
    \/ NormalTheme
    \/ NormalMode
    \/ NormalStyle
    \/ NormalHelp
    \/ NormalWake
    \/ NormalBed
    \/ NormalOther
    \/ HelpClose
    \/ HelpOther
    \/ EditEnter
    \/ EditEsc
    \/ EditBackspace
    \/ EditOther
    \/ IoFailure

SpecLoop == Init /\ [][NextLoop]_vars

(***************************************************************************)
(* validate_time as a function: its argument is drawn at startup and one   *)
(* step applies it.                                                        *)
(***************************************************************************)
\* "H:M" and "HH:MM" of every pair of field values up to MaxField
FieldInputs ==
    UNION {{Decimal(h) \o <<":">> \o Decimal(m), Pad2(h) \o <<":">> \o Pad2(m)} :
           <<h, m>> \in (0..MaxField) \X (0..MaxField)}

\* every string of at most MaxShort of these characters
ShortChars == {"1", "7", ":", "+", "a"}

MaxShort == 4

ShortInputs == UNION {[1..n -> ShortChars] : n \in 0..MaxShort}

\* fields around u32::MAX
WideInputs ==
    { U32MaxDigits \o <<":", "0", "0">>,
      <<"4", "2", "9", "4", "9", "6", "7", "2", "9", "6", ":", "0", "0">>,
      <<"0", "0", ":">> \o U32MaxDigits,
      <<"0", "0", ":", "4", "2", "9", "4", "9", "6", "7", "2", "9", "6">>,
      <<"0", "0", "0", "0", "0", "0", "0", "0", "0", "0", "0", "7", ":", "5">>,
      <<"9", "9", "9", "9", "9", "9", "9", "9", "9", "9", "9", ":", "0">> }

ValidateInputs == FieldInputs \cup ShortInputs \cup WideInputs

InitValidate ==
    /\ config = DefaultConfig
    /\ current_theme_index = 0
    /\ theme_mode = "Light"
    /\ progress_bar_style = config.progress_bar_style
    /\ input_mode = "Normal"
    /\ input_buffer = <<>>
    /\ error_message = None
    /\ running = TRUE
    /\ exit = None
    /\ key = None
    /\ saves = <<>>
    /\ history = <<>>
    /\ time_str \in ValidateInputs
    /\ vt_result = Pending
    /\ width = 0
    /\ now = 0
    /\ frame = NotDrawn

Validate ==
    /\ vt_result = Pending
    /\ vt_result' = validate_time(time_str)
    /\ UNCHANGED <<appVars, key, saves, history, time_str>>
    /\ UNCHANGED uiVars

SpecValidate == InitValidate /\ [][Validate]_vars

(***************************************************************************)
(* ui drawn once over application states, bar widths and times of day.     *)
(***************************************************************************)
\* the widest bar drawn
MaxWidth == 24

\* stored wake and bed times: the defaults, the ends of the day, a wake time
\* in the afternoon, a wake time after the bed time, a short form a commit
\* can leave, and one time for both
StoredTimes ==
    {<<<<"0", "7", ":", "0", "0">>, <<"2", "3", ":", "0", "0">>>>,
     <<<<"0", "0", ":", "0", "0">>, <<"2", "3", ":", "5", "9">>>>,
     <<<<"1", "3", ":", "0", "0">>, <<"2", "3", ":", "0", "0">>>>,
     <<<<"2", "3", ":", "0", "0">>, <<"0", "7", ":", "0", "0">>>>,
     <<<<"6", ":", "6">>, <<"2", "3", ":", "0", "0">>>>,
     <<<<"0", "7", ":", "0", "0">>, <<"0", "7", ":", "0", "0">>>>}

\* times of day in seconds: midnight, 07:00, 11:59:59, noon, 18:30:40 and
\* the last second of the day
Nows == {0, 25200, 43199, 43200, 66640, 86399}

\* texts of the edit buffer: empty, one digit, a whole time, and 9 characters
EditBuffers ==
    {<<>>, <<"6">>, <<"0", "6", ":", "3", "0">>,
     <<"0", "6", ":", "3", "0", "0", "0", "0", "0">>}

InitRender ==
    /\ current_theme_index \in {0, 1}
    /\ theme_mode = "Light"
    /\ progress_bar_style \in {"Gradient", "Grainy", "Analog"}
    /\ \E st \in StoredTimes :
          config = [DefaultConfig EXCEPT
                        !.theme_name = ThemeNames[current_theme_index + 1],
                        !.progress_bar_style = progress_bar_style,
                        !.wake_up_time = st[1], !.bed_time = st[2]]
    /\ \/ input_mode \in {"Normal", "Help"} /\ input_buffer = <<>>
       \/ input_mode \in {"EditingWakeUp", "EditingBedTime"}
             /\ input_buffer \in EditBuffers
    /\ error_message = None
    /\ running = TRUE
    /\ exit = None
    /\ key = None
    /\ saves = <<>>
    /\ history = Off
    /\ time_str = <<>>
    /\ vt_result = Pending
    /\ width \in 1..MaxWidth
    /\ now \in Nows
    /\ frame = NotDrawn

\* terminal.draw(|f| ui(f, app_state))
Draw ==
    /\ frame = NotDrawn
    /\ frame' = ui
    /\ UNCHANGED <<appVars, key, saves, history, vtVars, width, now>>

SpecRender == InitRender /\ [][Draw]_vars

(***************************************************************************)
(* Properties.                                                             *)
(***************************************************************************)
T0630 == <<"0", "6", ":", "3", "0">>

T9900 == <<"9", "9", ":", "0", "0">>

\* the state-machine part of AppState a key press may not touch when it is
\* said to leave the configuration alone
ConfigUntouched ==
    /\ config' = config
    /\ current_theme_index' = current_theme_index
    /\ theme_mode' = theme_mode
    /\ progress_bar_style' = progress_bar_style

\* a field of ASCII digits, at least one
IsNumeric(f) == Len(f) > 0 /\ \A i \in 1..Len(f) : f[i] \in Digits

\* the value of a numeric field is below n (n <= 100)
FieldBelow(f, n) ==
    LET sig == StripZeros(f)
    IN  Len(sig) <= 2 /\ DigitsValue(sig, 1, 0) < n

\* two numeric fields separated by one ':', hour 0..23, minute 0..59
InRange(s) ==
    /\ Len(Split(s)) = 2
    /\ IsNumeric(Split(s)[1])
    /\ IsNumeric(Split(s)[2])
    /\ FieldBelow(Split(s)[1], 24)
    /\ FieldBelow(Split(s)[2], 60)

\* C1 as stated: after 'w', '0', '6', ':', '3', '0', Enter from startup the
\* stored wake-up time is "06:30", the mode is Normal and a save was attempted.
C1_TypedTimeIsCommitted ==
    history = TypeWake =>
        /\ config.wake_up_time = T0630
        /\ input_mode = "Normal"
        /\ saves # <<>>

\* C1 amended: the keys are appended to the seeded "07:00", so Enter rejects
\* "07:0006:30" with the format error, stays in EditingWakeUp with the buffer
\* cleared, stores nothing and saves nothing; with the seeded text erased by
\* five Backspaces first, the sequence ends with wake_up_time "06:30", mode
\* Normal and one save attempted.
C1_SeededTextRejectedRetypedCommitted ==
    /\ history = TypeWake =>
          /\ error_message = ErrFormat
          /\ input_mode = "EditingWakeUp"
          /\ input_buffer = <<>>
          /\ config = DefaultConfig
          /\ saves = <<>>
    /\ history = RetypeWake =>
          /\ config = [DefaultConfig EXCEPT !.wake_up_time = T0630]
          /\ input_mode = "Normal"
          /\ Len(saves) = 1

C1_Witness ==
    /\ history = RetypeWake
    /\ key = "Enter"
    /\ config.wake_up_time = T0630
    /\ saves = <<"ok">>

\* C2 as stated: after 'w', '9', '9', ':', '0', '0', Enter from startup the
\* hour error is set, the mode is still EditingWakeUp, the buffer still holds
\* the typed text and the stored wake-up time is unchanged.
C2_BadHourKeepsText ==
    history = TypeBadHour =>
        /\ error_message = ErrHour
        /\ input_mode = "EditingWakeUp"
        /\ input_buffer = T9900
        /\ config.wake_up_time = DefaultConfig.wake_up_time

\* C2 amended: the sequence ends with the format error (the buffer was
\* "07:0099:00"), mode EditingWakeUp, the buffer empty and wake_up_time
\* unchanged; with the seeded text erased by five Backspaces first it ends
\* with the hour error, mode EditingWakeUp, the buffer empty and wake_up_time
\* unchanged.
C2_BadHourRejectedBufferCleared ==
    /\ history = TypeBadHour =>
          /\ error_message = ErrFormat
          /\ input_mode = "EditingWakeUp"
          /\ input_buffer = <<>>
          /\ config = DefaultConfig
    /\ history = RetypeBadHour =>
          /\ error_message = ErrHour
          /\ input_mode = "EditingWakeUp"
          /\ input_buffer = <<>>
          /\ config = DefaultConfig

C2_Witness ==
    /\ history = RetypeBadHour
    /\ key = "Enter"
    /\ error_message = ErrHour
    /\ input_mode = "EditingWakeUp"

\* C3: Enter on a buffer that validate_time rejects keeps the editing mode,
\* sets a non-empty error message, leaves both stored times unchanged and
\* attempts no save.
C3_RejectedEnter ==
    [][(key' = "Enter" /\ input_mode \in Editing
            /\ ~validate_time(input_buffer).ok) =>
           /\ input_mode' = input_mode
           /\ error_message' \in {ErrFormat, ErrInvalidHour, ErrInvalidMinute,
                                  ErrHour, ErrMinute}
           /\ error_message' = validate_time(input_buffer).err
           /\ config'.wake_up_time = config.wake_up_time
           /\ config'.bed_time = config.bed_time
           /\ saves' = <<>>]_vars

C3_Witness ==
    /\ key = "Enter"
    /\ input_mode = "EditingBedTime"
    /\ error_message = ErrMinute
    /\ config.bed_time = DefaultConfig.bed_time
    /\ saves = <<>>

\* C4: Enter on a buffer that validate_time accepts stores the buffer in the
\* edited field only, attempts exactly one save, clears buffer and error and
\* returns to Normal; the new in-memory state does not depend on the save's
\* outcome.
C4_AcceptedEnter ==
    [][(key' = "Enter" /\ input_mode \in Editing
            /\ validate_time(input_buffer).ok) =>
           /\ input_mode = "EditingWakeUp" =>
                 config' = [config EXCEPT !.wake_up_time = input_buffer]
           /\ input_mode = "EditingBedTime" =>
                 config' = [config EXCEPT !.bed_time = input_buffer]
           /\ Len(saves') = 1
           /\ input_buffer' = <<>>
           /\ error_message' = None
           /\ input_mode' = "Normal"
           /\ current_theme_index' = current_theme_index
           /\ theme_mode' = theme_mode
           /\ progress_bar_style' = progress_bar_style
           /\ running' = running]_vars

C4_Witness ==
    /\ key = "Enter"
    /\ input_mode = "Normal"
    /\ config.bed_time = <<"6", ":", "6">>
    /\ config.wake_up_time = DefaultConfig.wake_up_time
    /\ saves = <<"err">>

\* C5: both stored times always pass validate_time: two numeric fields, hour
\* 0..23, minute 0..59.
C5_StoredTimesValid ==
    /\ validate_time(config.wake_up_time).ok
    /\ validate_time(config.bed_time).ok
    /\ InRange(config.wake_up_time)
    /\ InRange(config.bed_time)

C5_Witness ==
    /\ key = "Enter"
    /\ saves = <<"ok">>
    /\ config.wake_up_time # DefaultConfig.wake_up_time
    /\ config.bed_time # DefaultConfig.bed_time

\* C6: each stored time equals the zero-padded "HH:MM" formatting of the
\* hour/minute pair it parses to.
C6_StoredTimesSerialized ==
    /\ config.wake_up_time = FormatTime(parse_time(config.wake_up_time))
    /\ config.bed_time = FormatTime(parse_time(config.bed_time))

\* s is two digits, ':', two digits
IsHHMM(s) ==
    /\ Len(s) = 5
    /\ s[3] = ":"
    /\ \A i \in {1, 2, 4, 5} : s[i] \in Digits

\* C7: for h in 0..23 and m in 0..59 validate_time of the zero-padded "HH:MM"
\* is Ok(h*3600 + m*60), and formatting that value gives the same text.
C7_ValidateRoundTrip ==
    (IsHHMM(time_str) /\ vt_result # Pending) =>
        LET h == 10 * DigitVal(time_str[1]) + DigitVal(time_str[2])
            m == 10 * DigitVal(time_str[4]) + DigitVal(time_str[5])
        IN  (h <= 23 /\ m <= 59) =>
                /\ vt_result = Ok(h * 3600 + m * 60)
                /\ FormatTime(vt_result.val) = time_str

C7_Witness ==
    /\ time_str = <<"2", "3", ":", "5", "9">>
    /\ vt_result = Ok(86340)
    /\ FormatTime(vt_result.val) = time_str

\* the number of ':' in s
RECURSIVE Colons(_)
Colons(s) ==
    IF Len(s) = 0 THEN 0
    ELSE (IF s[1] = ":" THEN 1 ELSE 0) + Colons(Tail(s))

\* the text before / after the first ':' of s
RECURSIVE BeforeColon(_)
BeforeColon(s) ==
    IF Len(s) = 0 \/ s[1] = ":" THEN <<>>
    ELSE <<s[1]>> \o BeforeColon(Tail(s))

AfterColon(s) == SubSeq(s, Len(BeforeColon(s)) + 2, Len(s))

\* C8 as stated: a string that is not two non-empty numeric fields around a
\* single ':' gets the format error; two numeric fields with hour >= 24 the
\* hour error; two numeric fields with hour <= 23 and minute >= 60 the minute
\* error.
C8_ErrorKinds ==
    vt_result # Pending =>
        LET hf == BeforeColon(time_str)
            mf == AfterColon(time_str)
            two == Colons(time_str) = 1 /\ IsNumeric(hf) /\ IsNumeric(mf)
        IN  /\ ~two => vt_result = Err(ErrFormat)
            /\ (two /\ ~FieldBelow(hf, 24)) => vt_result = Err(ErrHour)
            /\ (two /\ FieldBelow(hf, 24) /\ ~FieldBelow(mf, 60)) =>
                   vt_result = Err(ErrMinute)

\* a field str::parse::<u32>() accepts: digits after an optional '+', the
\* number at most u32::MAX
ParsesAsU32(f) ==
    LET body == IF Len(f) > 0 /\ f[1] = "+" THEN Tail(f) ELSE f
    IN  IsNumeric(body) /\ ~Overflows(StripZeros(body))

\* the digits of a field that parses
FieldDigits(f) == IF f[1] = "+" THEN Tail(f) ELSE f

\* C8 amended: a string without exactly one ':' gets the format error; with
\* one ':', an hour field that does not parse as a u32 (empty, a character
\* that is no digit, a number above u32::MAX) gets "Invalid hour"; else a
\* minute field that does not parse gets "Invalid minute"; two parsed fields
\* with hour >= 24 get the hour error; with hour <= 23 and minute >= 60 the
\* minute error.
C8_ErrorKindsByField ==
    vt_result # Pending =>
        LET hf == BeforeColon(time_str)
            mf == AfterColon(time_str)
            one == Colons(time_str) = 1
        IN  /\ ~one => vt_result = Err(ErrFormat)
            /\ (one /\ ~ParsesAsU32(hf)) => vt_result = Err(ErrInvalidHour)
            /\ (one /\ ParsesAsU32(hf) /\ ~ParsesAsU32(mf)) =>
                   vt_result = Err(ErrInvalidMinute)
            /\ (one /\ ParsesAsU32(hf) /\ ParsesAsU32(mf)
                    /\ ~FieldBelow(FieldDigits(hf), 24)) =>
                   vt_result = Err(ErrHour)
            /\ (one /\ ParsesAsU32(hf) /\ ParsesAsU32(mf)
                    /\ FieldBelow(FieldDigits(hf), 24)
                    /\ ~FieldBelow(FieldDigits(mf), 60)) =>
                   vt_result = Err(ErrMinute)

C8_Witness ==
    /\ time_str = <<"7", ":">>
    /\ vt_result = Err(ErrInvalidMinute)

\* C9: Escape in an editing mode returns to Normal with the buffer empty and
\* no error, changes no configuration field and attempts no save.
C9_EscapeAborts ==
    [][(key' = "Esc" /\ input_mode \in Editing) =>
           /\ input_mode' = "Normal"
           /\ input_buffer' = <<>>
           /\ error_message' = None
           /\ ConfigUntouched
           /\ saves' = <<>>]_vars

C9_Witness ==
    /\ history = AbortAfterError
    /\ key = "Esc"
    /\ input_mode = "Normal"
    /\ input_buffer = <<>>
    /\ error_message = None

\* C10: 'w' (resp. 'b') in Normal mode enters EditingWakeUp (resp.
\* EditingBedTime) with the buffer equal to the stored wake_up_time (resp.
\* bed_time) and no error, and changes no configuration field.
C10_EditEntrySeedsBuffer ==
    [][(key' \in {"w", "b"} /\ input_mode = "Normal") =>
           /\ input_mode' = IF key' = "w" THEN "EditingWakeUp" ELSE "EditingBedTime"
           /\ input_buffer' = IF key' = "w" THEN config.wake_up_time
                              ELSE config.bed_time
           /\ error_message' = None
           /\ ConfigUntouched
           /\ saves' = <<>>]_vars

C10_Witness ==
    /\ key = "b"
    /\ input_mode = "EditingBedTime"
    /\ input_buffer = config.bed_time
    /\ config.bed_time = <<"2", "3", ":", "6">>
    /\ config.wake_up_time = <<"0", "7", ":", "0">>
    /\ error_message = None

HelpCloseKeys == {"h", "q", "Esc"}

\* C11: Help is entered only by 'h' in Normal mode and left only by 'h', 'q'
\* or Escape, which return to Normal with the loop still running; every
\* other key pressed in Help leaves the application state unchanged.
C11_HelpMode ==
    [][/\ (input_mode # "Help" /\ input_mode' = "Help") =>
              (input_mode = "Normal" /\ key' = "h")
       /\ (input_mode = "Help" /\ input_mode' # "Help") => key' \in HelpCloseKeys
       /\ (input_mode = "Help" /\ key' \in HelpCloseKeys) =>
              /\ input_mode' = "Normal"
              /\ running'
              /\ input_buffer' = input_buffer
              /\ error_message' = error_message
              /\ ConfigUntouched
              /\ saves' = <<>>
       /\ (input_mode = "Help" /\ key' \notin HelpCloseKeys) =>
              /\ UNCHANGED appVars
              /\ saves' = <<>>]_vars

C11_Witness ==
    /\ input_mode = "Help"
    /\ key = "Ctrl-c"
    /\ running
    /\ config.wake_up_time = <<"6", ":", "6">>

\* C12: theme index, light/dark mode and bar style change only by 't', 'd',
\* 's' pressed in Normal mode; each press advances its selection one step
\* cyclically, writes it into the configuration record and attempts one
\* save; the index stays below the number of themes, and n presses of 't'
\* from startup leave the index at n mod k, the original theme when that is 0.
C12_SelectionSteps ==
    [][LET k == Len(ThemeNames)
           pressed(c) == key' = c /\ input_mode = "Normal"
       IN  /\ (current_theme_index' # current_theme_index
                 \/ config'.theme_name # config.theme_name) => pressed("t")
           /\ (theme_mode' # theme_mode
                 \/ config'.theme_mode # config.theme_mode) => pressed("d")
           /\ (progress_bar_style' # progress_bar_style
                 \/ config'.progress_bar_style # config.progress_bar_style) =>
                  pressed("s")
           /\ pressed("t") =>
                  /\ current_theme_index' = (current_theme_index + 1) % k
                  /\ current_theme_index' < k
                  /\ config' = [config EXCEPT !.theme_name =
                                    ThemeNames[current_theme_index' + 1]]
                  /\ Len(saves') = 1
           /\ pressed("d") =>
                  /\ theme_mode = "Light" => theme_mode' = "Dark"
                  /\ theme_mode = "Dark" => theme_mode' = "Light"
                  /\ config' = [config EXCEPT !.theme_mode =
                                    IF theme_mode = "Light" THEN "dark" ELSE "light"]
                  /\ Len(saves') = 1
           /\ pressed("s") =>
                  /\ progress_bar_style = "Gradient" => progress_bar_style' = "Grainy"
                  /\ progress_bar_style = "Grainy" => progress_bar_style' = "Analog"
                  /\ progress_bar_style = "Analog" => progress_bar_style' = "Gradient"
                  /\ config' = [config EXCEPT !.progress_bar_style =
                                    progress_bar_style']
                  /\ Len(saves') = 1
           /\ \A n \in 0..(2 * k) :
                  history' = Repeat("t", n) =>
                      /\ current_theme_index' = n % k
                      /\ config'.theme_name = ThemeNames[(n % k) + 1]]_vars

C12_Witness ==
    /\ history = CycleTwice
    /\ key = "t"
    /\ current_theme_index = 0
    /\ config = DefaultConfig
    /\ saves = <<"ok">>

\* the timeline rows have been composed
Drawn == frame.screen = "timeline"

\* C13: for seconds since midnight in [0, 86400) and a bar of w >= 2 columns
\* the pointer column is min(round(s * w / 86400), w - 1) and lies in [0, w);
\* the pointer glyph of the pointer line and the indicator of the bar are
\* at that column.
C13_PointerColumn ==
    Drawn =>
        LET scaled == RoundScaled(now, width)
        IN  /\ width >= 2
            /\ now \in 0..(total_seconds - 1)
            /\ frame.time_pos = IF scaled <= width - 1 THEN scaled ELSE width - 1
            /\ frame.time_pos >= 0
            /\ frame.time_pos < width
            /\ frame.pointer_line[frame.time_pos + 1] = DownTriangle
            /\ frame.bar[frame.time_pos + 1].text = HeavyVertical

C13_Witness ==
    /\ Drawn
    /\ width = 20
    /\ now = 86399
    /\ RoundScaled(now, width) = 20
    /\ frame.time_pos = 19

\* the span of a wake or bed marker in the bar
MarkerSpan == Span(LightVertical, FgBold(get_colors.marker))

\* C14: a marker at seconds s has its tick, time and label centred on, and
\* its overlay in the bar at, the column the pointer takes at time s:
\* round(s / 86400 * w) clamped to [0, w - 1].
C14_OneMapping ==
    Drawn =>
        /\ \A i \in 1..Len(frame.placed) :
               /\ frame.placed[i].pos = TimePos(frame.placed[i].seconds, width)
               /\ frame.ticks[TimePos(frame.placed[i].seconds, width) + 1] = LightVertical
        /\ \A secs \in {parse_time(config.wake_up_time), parse_time(config.bed_time)} :
               LET col == TimePos(secs, width)
               IN  \/ col = frame.time_pos
                   \/ frame.bar[col + 1] = MarkerSpan

Max(a, b) == IF a >= b THEN a ELSE b

\* the start offset of a text of len characters centred on column pos
ClaimedStart(pos, len, w) == Min(Max(0, pos - len \div 2), Max(0, w - len))

\* the column of the first character of a row that is not a blank
FirstText(row) ==
    CHOOSE c \in 0..(Len(row) - 1) :
        /\ row[c + 1] # Space
        /\ \A d \in 0..(c - 1) : row[d + 1] = Space

\* the start offsets of the floating time and of the marker texts are the
\* centred, clamped offsets
StartOffsetsClamped ==
    Drawn =>
        /\ FirstText(frame.time_line) = ClaimedStart(frame.time_pos, 5, width)
        /\ \A i \in 1..Len(frame.placed) :
               LET p == frame.placed[i]
               IN  /\ p.pos \in 0..(width - 1)
                   /\ p.t_start = ClaimedStart(p.pos, p.t_len, width)
                   /\ p.t_start + Min(p.t_len, width) <= width
                   /\ p.t_len > width => p.t_start = 0
                   /\ p.l_start = ClaimedStart(p.pos, p.l_len, width)
                   /\ p.l_start + Min(p.l_len, width) <= width
                   /\ p.l_len > width => p.l_start = 0

\* C15: the floating time and every marker text start at
\* min(max(0, pos - floor(L/2)), max(0, w - L)), so start + min(L, w) <= w
\* and start = 0 when L > w, and no row has a character at a column >= w.
C15_TextPlacement ==
    /\ StartOffsetsClamped
    /\ Drawn =>
           /\ Len(frame.time_line) <= width
           /\ Len(frame.times) <= width
           /\ Len(frame.labels) <= width

\* the cells of a line of spans of character sequences
RECURSIVE SpanCells(_)
SpanCells(spans) ==
    IF spans = <<>> THEN 0 ELSE Len(Head(spans).text) + SpanCells(Tail(spans))

\* every row but the floating time line has one cell per column of the bar
OtherRowsFillWidth ==
    Drawn =>
        /\ Len(frame.pointer_line) = width
        /\ Len(frame.bar) = width
        /\ Len(frame.ticks) = width
        /\ Len(frame.times) = width
        /\ SpanCells(frame.times_spans) = width
        /\ Len(frame.labels) = width

\* C16: each composed row (floating time line, pointer line, bar line, tick
\* line, time-label line, name-label line) has exactly w cells.
C16_RowsFillWidth ==
    /\ OtherRowsFillWidth
    /\ Drawn => Len(frame.time_line) = width

\* the markers placed, by their seconds
PlacedSeconds == [i \in 1..Len(frame.placed) |-> frame.placed[i].seconds]

\* the markers placed whose time text covers column c of the time row
CoveringTimes(c) ==
    {i \in 1..Len(frame.placed) :
        /\ c >= frame.placed[i].t_start
        /\ c < frame.placed[i].t_start + frame.placed[i].t_len}

\* the markers placed whose label covers column c of the label row
CoveringLabels(c) ==
    {i \in 1..Len(frame.placed) :
        /\ c >= frame.placed[i].l_start
        /\ c < frame.placed[i].l_start + frame.placed[i].l_len}

\* the greatest member of a set of numbers
Last(S) == CHOOSE i \in S : \A j \in S : j <= i

\* C17 as stated: the wake, noon and bed texts are written in ascending order
\* of their seconds since midnight.
C17_AscendingOrder ==
    Drawn =>
        \A i \in 1..Len(frame.placed), j \in 1..Len(frame.placed) :
            i < j => PlacedSeconds[i] <= PlacedSeconds[j]

\* C17: the texts are written in the fixed order wake, noon, bed, whatever
\* the stored times, so a cell that several texts cover shows the last of
\* them in that order; the order is ascending in seconds when the wake time
\* is not after noon and the bed time not before it.
C17_FixedOrder ==
    Drawn =>
            /\ [i \in 1..Len(frame.placed) |-> frame.placed[i].label_text]
                   = <<WakeLabel, NoonLabel, SleepLabel>>
            /\ PlacedSeconds = <<parse_time(config.wake_up_time), 12 * 3600,
                                 parse_time(config.bed_time)>>
            /\ \A c \in 0..(width - 1) :
                   /\ LET over == CoveringLabels(c)
                      IN  frame.labels[c + 1] =
                              IF over = {} THEN Space
                              ELSE frame.placed[Last(over)].label_text[
                                       c - frame.placed[Last(over)].l_start + 1]
                   /\ LET over == CoveringTimes(c)
                      IN  frame.times[c + 1] =
                              IF over = {} THEN Space
                              ELSE frame.placed[Last(over)].time_text[
                                       c - frame.placed[Last(over)].t_start + 1]
            /\ (PlacedSeconds[1] <= 12 * 3600 /\ 12 * 3600 <= PlacedSeconds[3]) =>
                   \A i \in 1..2 : PlacedSeconds[i] <= PlacedSeconds[i + 1]

C17_Witness ==
    /\ Drawn
    /\ width = 20
    /\ config.wake_up_time = <<"1", "3", ":", "0", "0">>
    /\ PlacedSeconds[1] > PlacedSeconds[2]
    /\ input_mode = "Normal"
    /\ frame.placed[1].t_start = 8
    /\ frame.placed[2].t_start = 8
    /\ SubSeq(frame.times, 9, 13) = NoonText

\* the columns a text of len characters written from column start takes
Columns(start, len) == {c \in 0..(width - 1) : c >= start /\ c < start + len}

\* C18: the column ranges of the three time labels are pairwise disjoint, and
\* so are the column ranges of the three name labels.
C18_LabelsDisjoint ==
    Drawn =>
        \A i \in 1..Len(frame.placed), j \in 1..Len(frame.placed) :
            i < j =>
                LET p == frame.placed[i]
                    q == frame.placed[j]
                IN  /\ Columns(p.t_start, p.t_len) \cap Columns(q.t_start, q.t_len) = {}
                    /\ Columns(p.l_start, p.l_len) \cap Columns(q.l_start, q.l_len) = {}

\* the number of maximal runs of equal adjacent elements of a row
Runs(row) ==
    IF row = <<>> THEN 0
    ELSE 1 + Cardinality({i \in 1..(Len(row) - 1) : row[i] # row[i + 1]})

\* the texts of a line of spans, joined
RECURSIVE SpanText(_)
SpanText(spans) ==
    IF spans = <<>> THEN <<>> ELSE Head(spans).text \o SpanText(Tail(spans))

FilledGlyph ==
    CASE progress_bar_style = "Gradient" -> FullBlock
      [] progress_bar_style = "Grainy" -> DarkShade
      [] progress_bar_style = "Analog" -> DoubleVertical

EmptyGlyph ==
    CASE progress_bar_style = "Gradient" -> FullBlock
      [] progress_bar_style = "Grainy" -> LightShade
      [] progress_bar_style = "Analog" -> LightVertical

\* C20: in the bar row the pointer column shows the indicator glyph, also
\* where the wake or bed marker falls on it; a wake or bed column of the bar
\* (round(s / 86400 * w), as the overlay computes it) that is not the pointer
\* column shows the marker glyph; every other column shows the filled base
\* glyph below round(ratio * w) and the empty base glyph from there on.
C20_OverlayPriority ==
    Drawn =>
        LET marker_cols == {RoundScaled(parse_time(config.wake_up_time), width),
                            RoundScaled(parse_time(config.bed_time), width)}
            filled_width == RoundScaled(now, width)
        IN  \A c \in 0..(width - 1) :
                LET cell == frame.bar[c + 1]
                IN  /\ c = frame.time_pos =>
                           cell = Span(HeavyVertical,
                                       FgBold(get_colors.progress_indicator))
                    /\ (c # frame.time_pos /\ c \in marker_cols) =>
                           cell = Span(LightVertical, FgBold(get_colors.marker))
                    /\ (c # frame.time_pos /\ c \notin marker_cols /\ c < filled_width) =>
                           /\ cell.text = FilledGlyph
                           /\ ~cell.style.bold
                           /\ progress_bar_style # "Gradient" =>
                                  cell.style.fg = get_colors.progress_end
                    /\ (c # frame.time_pos /\ c \notin marker_cols /\ c >= filled_width) =>
                           cell = Span(EmptyGlyph, Fg(get_colors.progress_empty))

C20_Witness ==
    /\ Drawn
    /\ width = 20
    /\ now = 25200
    /\ progress_bar_style = "Grainy"
    /\ RoundScaled(parse_time(config.wake_up_time), width) = frame.time_pos
    /\ frame.bar[7].text = HeavyVertical
    /\ frame.bar[20] = MarkerSpan
    /\ frame.bar[6].text = DarkShade
    /\ frame.bar[8].text = LightShade

QuitKeys == {"q", "Ctrl-c"}

TwoPressesEnd ==
    running =>
        /\ input_mode = "Normal" => ENABLED NormalQuit
        /\ input_mode = "Help" =>
               ENABLED (HelpClose /\ input_mode' = "Normal" /\ running')
        /\ input_mode \in Editing =>
               ENABLED (EditEsc /\ input_mode' = "Normal" /\ running')

C22_IdleOutsideEditing ==
    /\ input_mode \in {"Normal", "Help"} =>
           /\ input_buffer = <<>>
           /\ error_message = None
    /\ (input_buffer # <<>> \/ error_message # None) => input_mode \in Editing

C22_Witness ==
    /\ history = AbortAfterError
    /\ key = "Esc"
    /\ input_mode = "Normal"
    /\ input_buffer = <<>>
    /\ error_message = None

====
